---- MODULE Spec2Model ----
(***************************************************************************)
(* Model of src/regex.py: the State classes, RegexFSM.__init__ (graph      *)
(* construction on the class-level StartState), and RegexFSM.check_string  *)
(* (tokenizer + recursive backtracking matcher, executed frame by frame).  *)
(*                                                                         *)
(* A character is its code point; a Python str is a sequence of code       *)
(* points.  An optional value (quant "", a missing symbol/base) is the     *)
(* empty sequence, a present one a one-element sequence.                   *)
(***************************************************************************)
EXTENDS Naturals, Sequences, FiniteSets

VARIABLES
  heap,       \* the State objects: heap[ref] has kind, symbol, base, next_states
  instances,  \* the RegexFSM objects whose constructor returned
  raised,     \* the exception that left the last operation, or "none"
  call,       \* the running check_string (inst, s, tokens), or <<>>
  stack,      \* the activations of match, innermost last
  ret,        \* the value the last finished activation returned, or <<>>
  results     \* the two most recent values returned by check_string

vars == <<heap, instances, raised, call, stack, ret, results>>

(***************************** bounds **************************************)
\* lifecycle specification (Spec)
MaxCompiles == 2
LifeStrLen == 2
\* single-call specification (SpecMatch)
MaxPatLen == 4
MaxStrLen == 3
\* demonstration specification (SpecMain)
DemoMaxLen == 5

(***************************** characters **********************************)
Dot == 46
Star == 42
Plus == 43

\* "", "a", "a*", ".+", "*a", and with the non-ASCII U+00E9: "\u00e9", "\u00e9a"
LifePatterns ==
  {<<>>, <<97>>, <<97, Star>>, <<Dot, Plus>>, <<Star, 97>>, <<233>>, <<233, 97>>}
\* 'a', '.', '*', '+'
PatternAlphabet == {97, Dot, Star, Plus}
\* 'a', 'b'
InputAlphabet == {97, 98}
\* 'a'
LifeInputAlphabet == {97}
\* 'a', '4', 'u', 'h', 'i'
DemoAlphabet == {97, 52, 117, 104, 105}

Strings(alphabet, n) == UNION {[1..k -> alphabet] : k \in 0..n}

IsAscii(ch) == ch \in 0..127

\* "a*4.+hi"
regex_pattern == <<97, Star, 52, Dot, Plus, 104, 105>>

\* "aaaaaa4uhi", "4uhi", "meow", "pupupuuuu"
Sample1 == <<97, 97, 97, 97, 97, 97, 52, 117, 104, 105>>
Sample2 == <<52, 117, 104, 105>>
Sample3 == <<109, 101, 111, 119>>
Sample4 == <<112, 117, 112, 117, 112, 117, 117, 117, 117>>

(***************************** state graph *********************************)
None == 0

\* RegexFSM.curr_state is a class attribute: one StartState object, created
\* when the class body runs, that every instance reads through self.
curr_state == 1

NewState(kind, symbol, base) ==
  [kind |-> kind, symbol |-> symbol, base |-> base, next_states |-> <<>>]

StartState == NewState("Start", <<>>, <<>>)
TerminationState == NewState("Termination", <<>>, <<>>)
DotState == NewState("Dot", <<>>, <<>>)
AsciiState(symbol) == NewState("Ascii", <<symbol>>, <<>>)
StarState(base) == NewState("Star", <<>>, <<base>>)
PlusState(checking_state) == NewState("Plus", <<>>, <<checking_state>>)

\* allocate an object: its reference is its index in the heap
Alloc(h, obj) == [heap |-> Append(h, obj), ref |-> Len(h) + 1]

\* prev_state.next_states.append(new_state)
AppendNext(h, from, to) == [h EXCEPT ![from].next_states = Append(@, to)]

InitNextState(h, next_token, prev_state, tmp_next_state) ==
  IF next_token = Dot THEN Alloc(h, DotState)
  ELSE IF next_token = Star THEN Alloc(h, StarState(tmp_next_state))
  ELSE IF next_token = Plus THEN Alloc(h, PlusState(tmp_next_state))
  ELSE IF IsAscii(next_token) THEN Alloc(h, AsciiState(next_token))
  ELSE [heap |-> h, ref |-> None]

\* the for loop of __init__, from the i-th character on.  Appending to
\* next_states of None raises AttributeError; the state created just before
\* is then unreferenced.
RECURSIVE InitLoop(_, _, _, _, _)
InitLoop(h, regex_expr, i, prev_state, tmp_state) ==
  IF i > Len(regex_expr)
  THEN [heap |-> h, prev_state |-> prev_state, raised |-> "none"]
  ELSE LET new == InitNextState(h, regex_expr[i], prev_state, tmp_state)
       IN IF prev_state = None
          THEN [heap |-> h, prev_state |-> prev_state, raised |-> "AttributeError"]
          ELSE InitLoop(AppendNext(new.heap, prev_state, new.ref),
                        regex_expr, i + 1, new.ref, new.ref)

\* RegexFSM.__init__ as a function of the heap: the heap it leaves, the
\* exception it raises ("none" when it returns), and whether self exists.
Construct(h, regex_expr) ==
  LET loop == InitLoop(h, regex_expr, 1, curr_state, curr_state)
  IN IF loop.raised # "none" \/ loop.prev_state = None
     THEN [heap |-> loop.heap, raised |-> "AttributeError", ok |-> FALSE]
     ELSE LET t == Alloc(loop.heap, TerminationState)
          IN [heap |-> AppendNext(t.heap, loop.prev_state, t.ref),
              raised |-> "none", ok |-> TRUE]

(***************************** tokenizer ***********************************)
\* the while loop of check_string, from 0-based position i on
RECURSIVE TokenizeFrom(_, _)
TokenizeFrom(pattern, i) ==
  IF ~(i < Len(pattern)) THEN <<>>
  ELSE LET ch == pattern[i + 1]
       IN IF i + 1 < Len(pattern) /\ pattern[i + 2] \in {Star, Plus}
          THEN <<[sym |-> ch, quant |-> <<pattern[i + 2]>>]>>
                 \o TokenizeFrom(pattern, i + 2)
          ELSE <<[sym |-> ch, quant |-> <<>>]>> \o TokenizeFrom(pattern, i + 1)

\* the pattern kept where curr_state is kept, on the class: the latest one
SelfPattern_Latest(inst) == instances[Len(instances)].pattern

\* self.pattern, read through the instance
SelfPattern(inst) == instances[inst].pattern

Tokenize(inst) == TokenizeFrom(SelfPattern(inst), 0)

(***************************** matcher *************************************)
\* the wildcard forgotten
ok_NoWildcard(sym, c) == c = sym

ok(sym, c) == sym = Dot \/ c = sym

\* "i < len(s)", the bound test in front of every s[i]
InBounds(s, i) == i < Len(s)

\* s[i] for i >= 0 is defined exactly for these i (else IndexError)
Readable(seq, i) == i + 1 \in DOMAIN seq

\* "pattern_ind == len(tokens)"
AtEnd(tokens, pattern_ind) == pattern_ind = Len(tokens)

\* leftover input tolerated at the end of the tokens
EndResult_Prefix(s, str_ind) == str_ind <= Len(s)

\* "return str_ind == len(s)"
EndResult(s, str_ind) == str_ind = Len(s)

\* the recursive call made on the same token
NextPatternInd_Same(pattern_ind) == pattern_ind

\* "pattern_ind+1", the first argument of every recursive call
NextPatternInd(pattern_ind) == pattern_ind + 1

\* the loop without its increment
NextIndx_Stuck(indx) == indx

\* "indx += 1"
NextIndx(indx) == indx + 1

\* "str_ind >= len(s) or not ok(s[str_ind])", the rejection test of '+';
\* Readable is the read s[str_ind] that the short circuit lets through
PlusRejects(s, sym, str_ind) ==
  str_ind >= Len(s) \/ (Readable(s, str_ind) /\ ~ok(sym, s[str_ind + 1]))

S == call[1].s
Tokens == call[1].tokens
Top == stack[Len(stack)]
Tok == Tokens[Top.pattern_ind + 1]
Running(pc) == call # <<>> /\ stack # <<>> /\ Top.pc = pc
HasToken == ~AtEnd(Tokens, Top.pattern_ind) /\ Readable(Tokens, Top.pattern_ind)

\* a frame of match: its arguments, its local indx (str_ind until assigned)
\* and where it resumes
Frame(pattern_ind, str_ind) ==
  [pattern_ind |-> pattern_ind, str_ind |-> str_ind, indx |-> str_ind, pc |-> "entry"]

\* return value from the running frame to its caller
Return(value) ==
  /\ stack' = SubSeq(stack, 1, Len(stack) - 1)
  /\ ret' = <<[pattern_ind |-> Top.pattern_ind, str_ind |-> Top.str_ind,
               value |-> value]>>
  /\ UNCHANGED <<heap, instances, raised, call, results>>

\* match(pattern_ind, str_ind) called from the running frame, which resumes
\* at pc with its local indx set
CallMatch(pc, indx, pattern_ind, str_ind) ==
  /\ stack' = Append([stack EXCEPT ![Len(stack)].pc = pc, ![Len(stack)].indx = indx],
                     Frame(pattern_ind, str_ind))
  /\ ret' = <<>>
  /\ UNCHANGED <<heap, instances, raised, call, results>>

Goto(pc, indx) ==
  /\ stack' = [stack EXCEPT ![Len(stack)].pc = pc, ![Len(stack)].indx = indx]
  /\ ret' = <<>>
  /\ UNCHANGED <<heap, instances, raised, call, results>>

\* an exception unwinds every frame and leaves check_string
Raise(exc) ==
  /\ stack' = <<>>
  /\ ret' = <<>>
  /\ call' = <<>>
  /\ raised' = exc
  /\ UNCHANGED <<heap, instances, results>>

\* check_string(s) on a compiled instance: tokenize, then match(0, 0)
CheckString(inst, s) ==
  /\ call = <<>>
  /\ inst \in DOMAIN instances
  /\ call' = <<[inst |-> inst, s |-> s, tokens |-> Tokenize(inst)]>>
  /\ stack' = <<Frame(0, 0)>>
  /\ ret' = <<>>
  /\ raised' = "none"
  /\ UNCHANGED <<heap, instances, results>>

\* "if pattern_ind == len(tokens): return str_ind == len(s)", and the
\* IndexError of tokens[pattern_ind] past the end
MatchEnd ==
  /\ Running("entry")
  /\ ~HasToken
  /\ IF AtEnd(Tokens, Top.pattern_ind)
     THEN Return(EndResult(S, Top.str_ind))
     ELSE Raise("IndexError")

\* quant == "*": "if match(pattern_ind+1, str_ind)"
MatchStar ==
  /\ Running("entry")
  /\ HasToken
  /\ Tok.quant = <<Star>>
  /\ CallMatch("star_zero", Top.indx, NextPatternInd(Top.pattern_ind), Top.str_ind)

\* the result of the zero-repetition attempt discarded
StarZero_Discarded ==
  /\ Running("star_zero")
  /\ ret # <<>>
  /\ Goto("star_loop", Top.str_ind)

\* "return True", else "indx = str_ind"
StarZero ==
  /\ Running("star_zero")
  /\ ret # <<>>
  /\ IF ret[1].value THEN Return(TRUE) ELSE Goto("star_loop", Top.str_ind)

\* "while indx < len(s) and ok(s[indx]): indx += 1; if match(pattern_ind+1, indx)"
WhileLoop(body) ==
  IF InBounds(S, Top.indx)
  THEN IF ~Readable(S, Top.indx) THEN Raise("IndexError")
       ELSE IF ok(Tok.sym, S[Top.indx + 1])
       THEN CallMatch(body, NextIndx(Top.indx), NextPatternInd(Top.pattern_ind),
                      NextIndx(Top.indx))
       ELSE Return(FALSE)
  ELSE Return(FALSE)

\* "return True" inside the loop, else the next iteration
WhileBody(loop) ==
  /\ ret # <<>>
  /\ IF ret[1].value THEN Return(TRUE) ELSE Goto(loop, Top.indx)

StarLoop == Running("star_loop") /\ WhileLoop("star_body")

StarBody == Running("star_body") /\ WhileBody("star_loop")

\* quant == "+": the rejection test, "indx = str_ind + 1",
\* "if match(pattern_ind+1, indx)"
MatchPlus ==
  /\ Running("entry")
  /\ HasToken
  /\ Tok.quant = <<Plus>>
  /\ IF PlusRejects(S, Tok.sym, Top.str_ind) THEN Return(FALSE)
     ELSE IF ~Readable(S, Top.str_ind) THEN Raise("IndexError")
     ELSE CallMatch("plus_first", Top.str_ind + 1, NextPatternInd(Top.pattern_ind),
                    Top.str_ind + 1)

PlusFirst == Running("plus_first") /\ WhileBody("plus_loop")

PlusLoop == Running("plus_loop") /\ WhileLoop("plus_body")

PlusBody == Running("plus_body") /\ WhileBody("plus_loop")

\* no quantifier: "if str_ind < len(s) and ok(s[str_ind]):
\* return match(pattern_ind+1, str_ind+1)", else "return False"
MatchOne ==
  /\ Running("entry")
  /\ HasToken
  /\ Tok.quant = <<>>
  /\ IF InBounds(S, Top.str_ind)
     THEN IF ~Readable(S, Top.str_ind) THEN Raise("IndexError")
          ELSE IF ok(Tok.sym, S[Top.str_ind + 1])
          THEN CallMatch("tail", Top.indx, NextPatternInd(Top.pattern_ind),
                         Top.str_ind + 1)
          ELSE Return(FALSE)
     ELSE Return(FALSE)

\* the value of the call in "return match(pattern_ind+1, str_ind+1)"
OneReturn ==
  /\ Running("tail")
  /\ ret # <<>>
  /\ Return(ret[1].value)

\* the two most recent outcomes of check_string (an observer's record)
Record(r) == IF Len(results) < 2 THEN Append(results, r) ELSE <<results[2], r>>

\* "return match(0, 0)"
CheckReturn ==
  /\ call # <<>>
  /\ stack = <<>>
  /\ ret # <<>>
  /\ results' = Record([inst |-> call[1].inst,
                        pattern |-> instances[call[1].inst].pattern,
                        s |-> S, result |-> ret[1].value])
  /\ call' = <<>>
  /\ ret' = <<>>
  /\ UNCHANGED <<heap, instances, raised, stack>>

Step ==
  \/ MatchEnd
  \/ MatchStar
  \/ StarZero
  \/ StarLoop
  \/ StarBody
  \/ MatchPlus
  \/ PlusFirst
  \/ PlusLoop
  \/ PlusBody
  \/ MatchOne
  \/ OneReturn
  \/ CheckReturn

Init ==
  /\ heap = <<StartState>>
  /\ instances = <<>>
  /\ raised = "none"
  /\ call = <<>>
  /\ stack = <<>>
  /\ ret = <<>>
  /\ results = <<>>

\* RegexFSM(regex_expr)
Compile(regex_expr) ==
  /\ call = <<>>
  /\ LET c == Construct(heap, regex_expr)
     IN /\ heap' = c.heap
        /\ raised' = c.raised
        /\ instances' = IF c.ok
                        THEN Append(instances, [pattern |-> regex_expr,
                                                curr_state |-> curr_state])
                        ELSE instances
  /\ UNCHANGED <<call, stack, ret, results>>

\* compilations and calls of check_string in any order, one at a time
Next ==
  \/ /\ call = <<>> /\ Len(heap[curr_state].next_states) < MaxCompiles
     /\ \E p \in LifePatterns : Compile(p)
  \/ /\ call = <<>>
     /\ \E inst \in DOMAIN instances, s \in Strings(LifeInputAlphabet, LifeStrLen) :
          CheckString(inst, s)
  \/ Step

Spec == Init /\ [][Next]_vars

\* one call of check_string on one freshly compiled pattern
InitFor(patterns) ==
  \E p \in patterns :
    LET c == Construct(<<StartState>>, p)
    IN /\ c.ok
       /\ heap = c.heap
       /\ instances = <<[pattern |-> p, curr_state |-> curr_state]>>
       /\ raised = "none"
       /\ call = <<>>
       /\ stack = <<>>
       /\ ret = <<>>
       /\ results = <<>>

NextOnce(inputs) ==
  \/ /\ call = <<>> /\ results = <<>> /\ raised = "none"
     /\ \E s \in inputs : CheckString(1, s)
  \/ Step

InitMatch == InitFor(Strings(PatternAlphabet, MaxPatLen))

NextMatch == NextOnce(Strings(InputAlphabet, MaxStrLen))

SpecMatch == InitMatch /\ [][NextMatch]_vars /\ WF_vars(NextMatch)

\* the __main__ block: regex_pattern compiled, then check_string
InitMain == InitFor({regex_pattern})

NextMain ==
  NextOnce(Strings(DemoAlphabet, DemoMaxLen) \cup {Sample1, Sample2, Sample3, Sample4})

SpecMain == InitMain /\ [][NextMain]_vars /\ WF_vars(NextMain)

(***************************** graph shape *********************************)
\* the targets of a node's edges that are objects
Edges(n) == {heap[n].next_states[k] : k \in DOMAIN heap[n].next_states} \ {None}

RECURSIVE ReachFrom(_)
ReachFrom(seen) ==
  LET more == seen \cup UNION {Edges(n) : n \in seen}
  IN IF more = seen THEN seen ELSE ReachFrom(more)

\* the nodes reachable from a start node
Reachable(start) == ReachFrom({start})

\* the graph of an instance: its reachable nodes and their edge lists
Graph(i) ==
  [n \in Reachable(instances[i].curr_state) |-> heap[n].next_states]

\* no constructor call has failed so far (a failed call leaves None in an
\* edge list)
NoFailedCompile == \A n \in DOMAIN heap : \A k \in DOMAIN heap[n].next_states :
                     heap[n].next_states[k] # None

SimplePath(start) ==
  /\ Len(heap[start].next_states) = 1
  /\ \A n \in Reachable(start) :
       IF heap[n].kind = "Termination"
       THEN Len(heap[n].next_states) = 0
       ELSE Len(heap[n].next_states) = 1
  /\ Cardinality({n \in Reachable(start) : heap[n].kind = "Termination"}) = 1

\* the k-th node after start along first edges
RECURSIVE Chain(_, _)
Chain(start, k) == IF k = 0 THEN start ELSE heap[Chain(start, k - 1)].next_states[1]

(***************************** token semantics *****************************)
\* the acceptance predicate of an atom, as the claims state it
Satisfies(atom, c) == atom = Dot \/ c = atom

\* characters b+1..e of s form a segment that the token may take
Takes(tok, s, b, e) ==
  /\ b <= e
  /\ \A k \in (b + 1)..e : Satisfies(tok.sym, s[k])
  /\ tok.quant = <<>> => e = b + 1
  /\ tok.quant = <<Plus>> => e >= b + 1

\* the positions at which the first j tokens can end, taking consecutive
\* segments from the start of s
RECURSIVE EndsAfter(_, _, _)
EndsAfter(tokens, s, j) ==
  IF j = 0 THEN {0}
  ELSE {e \in 0..Len(s) :
          \E b \in EndsAfter(tokens, s, j - 1) : Takes(tokens[j], s, b, e)}

\* the whole of s splits into one segment per token
Splits(tokens, s) == Len(s) \in EndsAfter(tokens, s, Len(tokens))

\* 1-based pattern position of the atom of token j
RECURSIVE AtomPos(_, _)
AtomPos(tokens, j) ==
  IF j = 1 THEN 1
  ELSE AtomPos(tokens, j - 1) + 1 + Len(tokens[j - 1].quant)

\* the pattern positions that the tokenizer consumed as quantifiers
QuantPositions(tokens) ==
  {AtomPos(tokens, j) + 1 : j \in {m \in DOMAIN tokens : tokens[m].quant # <<>>}}

\* zero or more 'a', then '4', then one or more characters, then 'h', 'i'
InDemoLanguage(s) ==
  \E k \in 0..Len(s) :
    /\ Len(s) >= k + 4
    /\ \A j \in 1..k : s[j] = 97
    /\ s[k + 1] = 52
    /\ s[Len(s) - 1] = 104
    /\ s[Len(s)] = 105

(***************************** claims **************************************)
\* C1: check_string(s) returns true iff the whole of s splits into consecutive
\* segments, one per token in order (none: exactly one character satisfying
\* ok; '*': zero or more; '+': one or more); no prefix is accepted.
C1_WholeMatch ==
  \A k \in DOMAIN results :
    results[k].result = Splits(TokenizeFrom(results[k].pattern, 0), results[k].s)

\* "a*." accepts "aab" and the call has returned
C1_Witness ==
  \E k \in DOMAIN results :
    /\ results[k].pattern = <<97, Star, Dot>>
    /\ results[k].s = <<97, 97, 98>>
    /\ results[k].result

\* C2: compiling a pattern with a character that is neither '.', '*', '+'
\* nor ASCII fails with InvalidPatternSymbol, and no instance is created.
C2_InvalidPatternSymbol ==
  [][\A p \in LifePatterns :
       (Compile(p) /\ \E k \in DOMAIN p : ~(p[k] \in {Dot, Star, Plus} \/ IsAscii(p[k])))
         => (raised' = "InvalidPatternSymbol" /\ instances' = instances)]_vars

\* C3: after any sequence of successful compilations the graph reachable
\* from each instance's Start node is a simple path with one Termination.
C3_SimplePath ==
  NoFailedCompile => \A i \in DOMAIN instances : SimplePath(instances[i].curr_state)

\* C4: no later operation changes a compiled instance's pattern or graph, and
\* no node is shared between two instances.
C4_Immutable ==
  [][NoFailedCompile' =>
       /\ \A i \in DOMAIN instances :
            instances'[i] = instances[i] /\ Graph(i)' = Graph(i)
       /\ \A i, j \in DOMAIN instances' :
            i # j => (Reachable(instances[i].curr_state)
                        \cap Reachable(instances[j].curr_state))' = {}]_vars

C6_Deterministic ==
  \A i, j \in DOMAIN results :
    (results[i].pattern = results[j].pattern /\ results[i].s = results[j].s)
      => results[i].result = results[j].result

\* two instances of one pattern have both answered for the same input
C6_Witness ==
  /\ Len(results) = 2
  /\ results[1].inst # results[2].inst
  /\ results[1].pattern = results[2].pattern
  /\ results[1].s = results[2].s
  /\ results[1].s # <<>>

\* C7: "a*4.+hi" accepts exactly zero or more 'a', '4', one or more
\* characters, 'h', 'i'; true for "aaaaaa4uhi" and "4uhi", false for "meow"
\* and "pupupuuuu".
C7_Demo ==
  \A k \in DOMAIN results :
    /\ results[k].result = InDemoLanguage(results[k].s)
    /\ results[k].s \in {Sample1, Sample2} => results[k].result
    /\ results[k].s \in {Sample3, Sample4} => ~results[k].result

\* "aaaaaa4uhi" has been accepted
C7_Witness ==
  \E k \in DOMAIN results : results[k].s = Sample1 /\ results[k].result

\* C8: a pattern position is a StarState/PlusState of the graph iff the
\* tokenizer consumed it as a quantifier, and no token has '*' or '+' as atom.
C8_Agree ==
  (Len(instances) = 1 /\ Len(heap[curr_state].next_states) = 1) =>
    LET p == instances[1].pattern
        tokens == TokenizeFrom(p, 0)
    IN /\ \A k \in DOMAIN p :
            heap[Chain(instances[1].curr_state, k)].kind \in {"Star", "Plus"}
              <=> k \in QuantPositions(tokens)
       /\ \A j \in DOMAIN tokens : tokens[j].sym \notin {Star, Plus}

\* C9: a call of match with the input exhausted and tokens remaining returns
\* true iff every remaining token has quantifier '*'.
C9_Exhausted ==
  (call # <<>> /\ ret # <<>> /\ ret[1].str_ind = Len(S)
     /\ ret[1].pattern_ind < Len(Tokens))
    => ret[1].value = (\A j \in (ret[1].pattern_ind + 1)..Len(Tokens) :
                         Tokens[j].quant = <<Star>>)

\* such a call has returned true over two remaining '*' tokens
C9_Witness ==
  /\ call # <<>>
  /\ ret # <<>>
  /\ ret[1].value
  /\ ret[1].str_ind = Len(S)
  /\ Len(Tokens) - ret[1].pattern_ind >= 2

\* C10: each recursive call has pattern_ind one greater than its caller's
\* and str_ind not less; indices stay within 0..len(tokens) and 0..len(s), no
\* index is out of range, and the depth is at most len(tokens) + 1.
C10_Frames ==
  /\ raised # "IndexError"
  /\ call # <<>> =>
       /\ Len(stack) <= Len(Tokens) + 1
       /\ \A k \in DOMAIN stack :
            /\ stack[k].pattern_ind \in 0..Len(Tokens)
            /\ stack[k].str_ind \in 0..Len(S)
            /\ stack[k].indx \in 0..Len(S)
       /\ \A k \in 1..(Len(stack) - 1) :
            /\ stack[k + 1].pattern_ind = stack[k].pattern_ind + 1
            /\ stack[k + 1].str_ind >= stack[k].str_ind

\* the recursion is at its deepest, past three tokens, with input consumed
C10_Witness ==
  /\ call # <<>>
  /\ Len(Tokens) >= 3
  /\ Len(stack) = Len(Tokens) + 1
  /\ Top.str_ind = Len(S)
  /\ Len(S) >= 2
====
